---- MODULE Spec2Model ----
\* Tavern Tales game server: one game session of src/server/routes.ts over the
\* store of DatabaseStorage (src/unnamed/part_000, lines 525-635).
\*
\* Every HTTP handler is an async function; each `await storage.*` is a point
\* where another request may run.  A request occupies a slot of `req`; its pc
\* names the statement it executes next.  A handler's first step happens
\* together with the arrival of the request.  Consecutive reads of rows that
\* are only ever inserted (players, characters) are taken in one step.
\* Request bodies are the ones the repository's client sends; a submit-action
\* request may also lack a field or carry a token of no player of the session.
\*
\* Spec starts from a new game and runs every handler of the session.
\* SpecRound starts from a session that is ready to play (both players joined,
\* both characters created, the opening stored) and runs the submit-action
\* handler only;
\* SpecTurns does so for more actions with a narrator that sends no payload.
\* SpecParse, SpecApply and SpecFail start a round at its narrator call with
\* the replies the parser and the applier are checked on; SpecTranscript
\* starts it after the read of the messages; SpecDice rolls dice notations.
EXTENDS Integers, FiniteSets, Sequences, Bags, TLC

VARIABLES
    players,      \* rows of table players of the session (ids)
    hasActed,     \* players.has_acted, per player id
    charRows,     \* number of rows of table characters per player id
    characters,   \* the row getCharacterByPlayer returns, per player that has one
    messages,     \* rows of table messages of the session (a bag of rows)
    turnPhase,    \* games.turn_phase
    currentTurn,  \* games.current_turn
    apiKey,       \* process.env.OPENROUTER_API_KEY is set
    req,          \* the requests being handled, per slot
    response,     \* the answer sent by the step just taken, if it sent one
    genCalls,     \* narrations requested for rounds (routes.ts 597-612)
    decPasses     \* runs of decrementCooldowns

vars == <<players, hasActed, charRows, characters, messages, turnPhase,
          currentTurn, apiKey, req, response, genCalls, decPasses>>

\* ---------------------------------------------------------------- bounds
MaxConc == 2          \* requests handled at the same time
MaxCharRows == 2      \* create-character requests accepted per player
MaxActions == 2       \* submit-action requests accepted under Spec
MaxRoundActions == 3  \* submit-action requests accepted under SpecRound
AbilityCooldown == 3  \* turns of cooldown of the ability the narrator grants
MaxText == 5          \* tokens of a reply of the narrator under SpecParse
MaxItems == 3         \* items of an inventory in the first state of SpecApply
MaxDuration == 2      \* turns left of a status effect in the first state of SpecApply
MaxTurnActions == 4   \* submit-action requests accepted under SpecTurns
MaxHistory == 5       \* messages of a session under SpecTranscript
MaxNotation == 5      \* characters of a dice notation under SpecDice
MaxDice == 2          \* dice thrown for one notation under SpecDice

\* ------------------------------------------------------ program constants
MaxPlayers == 2       \* routes.ts 398: existingPlayers.length >= 2
XpGrant == 25         \* routes.ts 101: "Weak enemy (goblin, rat, thug): 25 XP each"

ReqIds == 1..MaxConc
\* ids for every row createPlayer can insert with MaxConc concurrent joins
PlayerIds == 1..(MaxPlayers - 1 + MaxConc)

WaitingForPlayers == "waiting-for-players"
AiProcessing == "ai-processing"

\* what a request found when it arrived; kept while it is handled alone
Unseen == [turn |-> 0, acted |-> {}, msgs |-> 0, dec |-> 0]

Idle ==
    [kind |-> "none", pc |-> "idle", player |-> 0,
     seenPlayers |-> {}, seenChars |-> <<>>, aiResponse |-> <<>>,
     narrative |-> <<>>, updates |-> <<>>, dice |-> <<>>,
     allMessages |-> <<>>, aiMessages |-> <<>>,
     outcome |-> "none", readTurn |-> 0, posted |-> "none",
     alone |-> TRUE, at0 |-> Unseen]

InFlight(r) == req[r].pc # "idle"

NoResponse == [kind |-> "none", status |-> 0]

\* the others are no longer alone: what they saw at arrival is forgotten
Overlapped(rec) == [rec EXCEPT !.alone = FALSE, !.at0 = Unseen]

\* a request arrives and takes the first free slot; `alone` records whether
\* the handling of a request overlapped the handling of another one
Arrive(r, rec) ==
    /\ ~InFlight(r)
    /\ \A o \in ReqIds : o < r => InFlight(o)
    /\ LET quiet == \A o \in ReqIds : ~InFlight(o)
       IN  req' = [s \in ReqIds |->
                     IF s = r THEN (IF quiet THEN rec ELSE Overlapped(rec))
                     ELSE IF InFlight(s) THEN Overlapped(req[s])
                     ELSE req[s]]
    /\ response' = NoResponse

\* res.json / res.status(..).json: the handler answers and its slot is free
Respond(r, st) ==
    /\ req' = [req EXCEPT ![r] = Idle]
    /\ response' = [kind |-> req[r].kind, status |-> st]

\* the request goes on with the statement named pc
Goto(r, pc) ==
    /\ req' = [req EXCEPT ![r].pc = pc]
    /\ response' = NoResponse

\* a request answered in its first step
ArriveAndRespond(r, k, st) ==
    /\ ~InFlight(r)
    /\ \A o \in ReqIds : o < r => InFlight(o)
    /\ req' = [s \in ReqIds |-> IF InFlight(s) THEN Overlapped(req[s]) ELSE req[s]]
    /\ response' = [kind |-> k, status |-> st]

\* ------------------------------------------------------------------ texts
\* a text is a sequence of tokens: words, white space, the two markers, a
\* JSON object (j holds its entries in key order) and text that is no JSON
Token(t, w, j) == [t |-> t, w |-> w, j |-> j]
Word(w) == Token("word", w, <<>>)
Space == Token("space", "", <<>>)
BeginMarker == Token("begin", "", <<>>)   \* <<<CHARACTER_UPDATES>>>
EndMarker == Token("end", "", <<>>)       \* <<<END_UPDATES>>>
Json(entries) == Token("json", "", entries)
Junk == Token("junk", "", <<>>)

OpeningText == <<Word("opening")>>
ActionText == <<Word("action")>>
NarrativeText == <<Word("narrative")>>
MockText == <<Word("mock")>>
FallbackText == <<Word("fallback")>>

\* ------------------------------------------------------------ store reads
\* gamePlayers.map(p => getCharacterByPlayer(p.id)).filter(Boolean)
ValidCharacters(ps) == [p \in (ps \cap DOMAIN characters) |-> characters[p]]

Message(role, playerId, content) ==
    [role |-> role, playerId |-> playerId, content |-> content]

OpeningMessage == Message("assistant", 0, OpeningText)

\* storage.createMessage
CreateMessage(m) == messages' = messages (+) SetToBag({m})

\* the names the players give their characters
CharName(p) == <<"mira", "Thorn", "Orin">>[p]

\* the sheet the character-creation page posts: xp 0, nothing carried, no
\* status effect and no ability yet
NewSheet(p) ==
    [name |-> CharName(p), xp |-> 0, inventory |-> <<>>,
     statusEffects |-> <<>>, abilities |-> <<>>]

\* ------------------------------------------------------------------ Init
\* POST /api/games: a game without players, turn 0, waiting-for-players
Init ==
    /\ players = {}
    /\ hasActed = [p \in PlayerIds |-> FALSE]
    /\ charRows = [p \in PlayerIds |-> 0]
    /\ characters = <<>>
    /\ messages = EmptyBag
    /\ turnPhase = WaitingForPlayers
    /\ currentTurn = 0
    /\ apiKey \in BOOLEAN
    /\ req = [r \in ReqIds |-> Idle]
    /\ response = NoResponse
    /\ genCalls = 0
    /\ decPasses = 0

\* the session after join, join, create character, create character (which
\* stored the opening), each request handled before the next arrived
InitRound ==
    /\ players = 1..MaxPlayers
    /\ hasActed = [p \in PlayerIds |-> FALSE]
    /\ charRows = [p \in PlayerIds |-> IF p \in 1..MaxPlayers THEN 1 ELSE 0]
    /\ characters = [p \in 1..MaxPlayers |-> NewSheet(p)]
    /\ messages = SetToBag({OpeningMessage})
    /\ turnPhase = WaitingForPlayers
    /\ currentTurn = 0
    /\ apiKey \in BOOLEAN
    /\ req = [r \in ReqIds |-> Idle]
    /\ response = NoResponse
    /\ genCalls = 0
    /\ decPasses = 0

\* ------------------------------------------- POST /api/games/:gameId/join
SessionFull(existingPlayers) == Cardinality(existingPlayers) >= MaxPlayers

\* routes.ts 391-400: read the player list, compare its length to 2
JoinCheck(r) ==
    /\ IF SessionFull(players)
       THEN ArriveAndRespond(r, "join", 400)
       ELSE Arrive(r, [Idle EXCEPT !.kind = "join", !.pc = "createPlayer"])
    /\ UNCHANGED <<players, hasActed, charRows, characters, messages,
                   turnPhase, currentTurn, apiKey, genCalls, decPasses>>

NewPlayerId == CHOOSE p \in PlayerIds \ players : \A q \in PlayerIds \ players : p <= q

\* routes.ts 402-409: insert the player row, hasActed false
JoinCreatePlayer(r) ==
    /\ req[r].pc = "createPlayer"
    /\ players' = players \cup {NewPlayerId}
    /\ hasActed' = [hasActed EXCEPT ![NewPlayerId] = FALSE]
    /\ Respond(r, 200)
    /\ UNCHANGED <<charRows, characters, messages, turnPhase, currentTurn,
                   apiKey, genCalls, decPasses>>

\* -------------------------------------------------- POST /api/characters
\* routes.ts 418-419: insert the character row; an unknown player_id breaks
\* the foreign key and the handler answers 400
CharCreate(r, p) ==
    /\ charRows[p] < MaxCharRows
    /\ IF p \in players
       THEN /\ charRows' = [charRows EXCEPT ![p] = @ + 1]
            /\ characters' = IF p \in DOMAIN characters THEN characters
                             ELSE (p :> NewSheet(p)) @@ characters
            /\ Arrive(r, [Idle EXCEPT !.kind = "character", !.pc = "charCheck",
                                      !.player = p])
       ELSE /\ ArriveAndRespond(r, "character", 400)
            /\ UNCHANGED <<charRows, characters>>
    /\ UNCHANGED <<players, hasActed, messages, turnPhase, currentTurn,
                   apiKey, genCalls, decPasses>>

\* routes.ts 430: validCharacters.length === 2
BothHaveCharacters(valid) == Cardinality(DOMAIN valid) = 2

\* routes.ts 422-430: do both players have characters now?
CharCheck(r) ==
    /\ req[r].pc = "charCheck"
    /\ IF BothHaveCharacters(ValidCharacters(players))
       THEN Goto(r, "charReadMessages")
       ELSE Respond(r, 200)
    /\ UNCHANGED <<players, hasActed, charRows, characters, messages,
                   turnPhase, currentTurn, apiKey, genCalls, decPasses>>

\* the stored messages are not looked at
NoMessagesYet_Always(existingMessages) == TRUE

\* routes.ts 432 and 705: existingMessages.length === 0
NoMessagesYet(existingMessages) == BagCardinality(existingMessages) = 0

\* routes.ts 431-437: read the messages; with none, ask for the opening story
CharReadMessages(r) ==
    /\ req[r].pc = "charReadMessages"
    /\ IF NoMessagesYet(messages)
       THEN Goto(r, "charOpening")
       ELSE Respond(r, 200)
    /\ UNCHANGED <<players, hasActed, charRows, characters, messages,
                   turnPhase, currentTurn, apiKey, genCalls, decPasses>>

\* the flags are cleared when the opening is stored
CharOpening_ResetsActed(r) ==
    /\ req[r].pc = "charOpening"
    /\ CreateMessage(OpeningMessage)
    /\ hasActed' = [p \in PlayerIds |-> FALSE]
    /\ Respond(r, 200)
    /\ UNCHANGED <<players, charRows, characters, turnPhase,
                   currentTurn, apiKey, genCalls, decPasses>>

\* routes.ts 437-457: the dynamic opening, or the static one when the call
\* fails or no key is set, is stored as an assistant message
CharOpening(r) ==
    /\ req[r].pc = "charOpening"
    /\ CreateMessage(OpeningMessage)
    /\ Respond(r, 200)
    /\ UNCHANGED <<players, hasActed, charRows, characters, turnPhase,
                   currentTurn, apiKey, genCalls, decPasses>>

\* ------------------------------------------ POST /api/games/:gameId/start
\* one character is enough
NotAllCharacters_None(valid) == Cardinality(DOMAIN valid) < 1

\* routes.ts 700: validCharacters.length < 2
NotAllCharacters(valid) == Cardinality(DOMAIN valid) < 2

\* routes.ts 694-702
StartCheck(r) ==
    /\ IF NotAllCharacters(ValidCharacters(players))
       THEN ArriveAndRespond(r, "start", 400)
       ELSE Arrive(r, [Idle EXCEPT !.kind = "start", !.pc = "startReadMessages"])
    /\ UNCHANGED <<players, hasActed, charRows, characters, messages,
                   turnPhase, currentTurn, apiKey, genCalls, decPasses>>

\* routes.ts 704-713
StartReadMessages(r) ==
    /\ req[r].pc = "startReadMessages"
    /\ IF NoMessagesYet(messages)
       THEN Goto(r, "startOpening")
       ELSE Respond(r, 400)
    /\ UNCHANGED <<players, hasActed, charRows, characters, messages,
                   turnPhase, currentTurn, apiKey, genCalls, decPasses>>

\* routes.ts 713-729
StartOpening(r) ==
    /\ req[r].pc = "startOpening"
    /\ CreateMessage(OpeningMessage)
    /\ Respond(r, 200)
    /\ UNCHANGED <<players, hasActed, charRows, characters, turnPhase,
                   currentTurn, apiKey, genCalls, decPasses>>

\* --------------------------------------- POST /api/games/:gameId/messages
RECURSIVE Copies(_)
Copies(ms) ==
    IF ms = {} THEN 0
    ELSE LET m == CHOOSE x \in ms : TRUE
         IN  CopiesIn(m, messages) + Copies(ms \ {m})

\* the stored messages of a role
CountRole(role) == Copies({m \in BagToSet(messages) : m.role = role})

UserMessages == CountRole("user")

\* the credentials and bodies a submit-action request can carry: the token of
\* player row p (of this session when the row exists), a body without
\* sessionToken or content, or the token of a player of another game
MissingField == 0
OtherSession == -1
Credentials == PlayerIds \cup {MissingField, OtherSession}

\* the player's message is stored before the character is looked up
MsgSubmit_StoreFirst(r, p) ==
    /\ IF p = MissingField
       THEN /\ ArriveAndRespond(r, "message", 400)
            /\ UNCHANGED messages
       ELSE IF p = OtherSession \/ p \notin players
       THEN /\ ArriveAndRespond(r, "message", 403)
            /\ UNCHANGED messages
       ELSE IF p \notin DOMAIN characters
       THEN /\ ArriveAndRespond(r, "message", 400)
            /\ CreateMessage(Message("user", p, ActionText))
       ELSE /\ CreateMessage(Message("user", p, ActionText))
            /\ Arrive(r, [Idle EXCEPT !.kind = "message", !.pc = "updatePlayerActed",
                              !.player = p,
                              !.at0 = [turn |-> currentTurn,
                                       acted |-> {q \in players : hasActed[q]},
                                       msgs |-> BagCardinality(messages),
                                       dec |-> decPasses]])
    /\ UNCHANGED <<players, hasActed, charRows, characters, turnPhase,
                   currentTurn, apiKey, genCalls, decPasses>>

\* routes.ts 497-519: the guards, then the player's message is stored
MsgSubmit(r, p) ==
    /\ IF p = MissingField
       THEN /\ ArriveAndRespond(r, "message", 400)
            /\ UNCHANGED messages
       ELSE IF p = OtherSession \/ p \notin players
       THEN /\ ArriveAndRespond(r, "message", 403)
            /\ UNCHANGED messages
       ELSE IF p \notin DOMAIN characters
       THEN /\ ArriveAndRespond(r, "message", 400)
            /\ UNCHANGED messages
       ELSE /\ CreateMessage(Message("user", p, ActionText))
            /\ Arrive(r, [Idle EXCEPT !.kind = "message", !.pc = "updatePlayerActed",
                              !.player = p,
                              !.at0 = [turn |-> currentTurn,
                                       acted |-> {q \in players : hasActed[q]},
                                       msgs |-> BagCardinality(messages),
                                       dec |-> decPasses]])
    /\ UNCHANGED <<players, hasActed, charRows, characters, turnPhase,
                   currentTurn, apiKey, genCalls, decPasses>>

\* routes.ts 522, part_000 580-582
MsgUpdateActed(r) ==
    /\ req[r].pc = "updatePlayerActed"
    /\ hasActed' = [hasActed EXCEPT ![req[r].player] = TRUE]
    /\ Goto(r, "getPlayersByGame")
    /\ UNCHANGED <<players, charRows, characters, messages, turnPhase,
                   currentTurn, apiKey, genCalls, decPasses>>

\* `some` where the code says `every`
AllActed_Some(allPlayers, acted, me) == \E q \in allPlayers : acted[q] \/ q = me

\* routes.ts 526: allPlayers.every(p => p.hasActed || p.id === player.id)
AllActed(allPlayers, acted, me) == \A q \in allPlayers : acted[q] \/ q = me

\* without the test of the number of players
RoundComplete_AnyNumber(allPlayers, acted, me) == AllActed(allPlayers, acted, me)

\* routes.ts 528: allActed && allPlayers.length >= 2
RoundComplete(allPlayers, acted, me) ==
    AllActed(allPlayers, acted, me) /\ Cardinality(allPlayers) >= 2

\* routes.ts 525-528 and 654: re-read the players; without a complete round
\* the handler answers with the stored message
MsgCheckAllActed(r) ==
    /\ req[r].pc = "getPlayersByGame"
    /\ IF RoundComplete(players, hasActed, req[r].player)
       THEN /\ req' = [req EXCEPT ![r].pc = "setAiProcessing",
                                  ![r].seenPlayers = players]
            /\ response' = NoResponse
       ELSE Respond(r, 200)
    /\ UNCHANGED <<players, hasActed, charRows, characters, messages,
                   turnPhase, currentTurn, apiKey, genCalls, decPasses>>

\* routes.ts 530, part_000 551-555 (no turn argument)
MsgSetAiProcessing(r) ==
    /\ req[r].pc = "setAiProcessing"
    /\ turnPhase' = AiProcessing
    /\ Goto(r, "readContext")
    /\ UNCHANGED <<players, hasActed, charRows, characters, messages,
                   currentTurn, apiKey, genCalls, decPasses>>

\* routes.ts 533-602: the characters of allPlayers and the messages are read,
\* the transcript is built and the narration is requested
MsgReadContext(r) ==
    /\ req[r].pc = "readContext"
    /\ req' = [req EXCEPT ![r].pc = "callOpenRouter",
                          ![r].seenChars = ValidCharacters(req[r].seenPlayers)]
    /\ response' = NoResponse
    /\ genCalls' = genCalls + 1
    /\ UNCHANGED <<players, hasActed, charRows, characters, messages,
                   turnPhase, currentTurn, apiKey, decPasses>>

\* --------------------------------------------------- narrator and applier
Absent == -1

NoChanges ==
    [xp |-> Absent, addInventory |-> <<>>, removeInventory |-> <<>>,
     addStatusEffect |-> <<>>, removeStatusEffect |-> <<>>,
     addAbility |-> <<>>, useAbility |-> <<>>]

Entry(key, changes) == [key |-> key, changes |-> changes]

\* the ability named in the payload of routes.ts 119, ready when granted
PowerStrike ==
    [name |-> "Power Strike", cooldown |-> AbilityCooldown, currentCooldown |-> 0]

\* the payloads the narrator sends between the markers in Spec and SpecRound:
\* one entry keyed by the name of the first player's character that grants xp,
\* grants the ability or uses it
GenPayloads ==
    {<<Entry("Mira", ch)>> :
        ch \in {[NoChanges EXCEPT !.xp = XpGrant],
                [NoChanges EXCEPT !.addAbility = <<PowerStrike>>],
                [NoChanges EXCEPT !.useAbility = <<PowerStrike.name>>]}}

\* the replies of the narrator in Spec and SpecRound: a narration alone, or a
\* narration followed by a payload between the markers
GenTexts ==
    {NarrativeText} \cup
    {NarrativeText \o <<BeginMarker, Json(u), EndMarker>> : u \in GenPayloads}

\* routes.ts 324-349 and 601-612: callOpenRouter returns text, throws on a
\* failed call ("error") or on a reply without choices ("empty"); without a
\* key one of the canned narrations is taken ("mock")
GenOutcomes(key) == IF key THEN {"ok", "error", "empty"} ELSE {"mock"}

\* String.prototype.trim: white space at both ends is dropped
Trim(text) ==
    LET solid == {i \in 1..Len(text) : text[i].t # "space"}
    IN  IF solid = {} THEN <<>>
        ELSE SubSeq(text, CHOOSE i \in solid : \A k \in solid : i <= k,
                          CHOOSE i \in solid : \A k \in solid : i >= k)

\* routes.ts 205: the non-global regular expression with a lazy body matches
\* from the first begin marker to the first end marker after it
UpdateMatch(text) ==
    LET begins == {i \in 1..Len(text) : text[i].t = "begin"}
        b == IF begins = {} THEN 0
             ELSE CHOOSE i \in begins : \A k \in begins : i <= k
        ends == {i \in 1..Len(text) : i > b /\ text[i].t = "end"}
        e == IF ends = {} THEN 0
             ELSE CHOOSE i \in ends : \A k \in ends : i <= k
    IN  IF b = 0 \/ e = 0 THEN [found |-> FALSE, from |-> 0, to |-> 0]
        ELSE [found |-> TRUE, from |-> b, to |-> e]

\* the catch of line 216 returns the whole reply as the narrative
ParseCharacterUpdates_KeepSpan(text) ==
    LET m == UpdateMatch(text)
        body == Trim(SubSeq(text, m.from + 1, m.to - 1))
        rest == Trim(SubSeq(text, 1, m.from - 1) \o SubSeq(text, m.to + 1, Len(text)))
    IN  IF ~m.found THEN [narrative |-> Trim(text), updates |-> <<>>]
        ELSE IF Len(body) = 1 /\ body[1].t = "json"
        THEN [narrative |-> rest, updates |-> <<body[1].j>>]
        ELSE [narrative |-> Trim(text), updates |-> <<>>]

\* routes.ts 204-220: updates is <<>> for null, <<entries>> for a parsed
\* object; JSON.parse accepts the trimmed body when it is one JSON object
ParseCharacterUpdates(text) ==
    LET m == UpdateMatch(text)
        body == Trim(SubSeq(text, m.from + 1, m.to - 1))
        rest == Trim(SubSeq(text, 1, m.from - 1) \o SubSeq(text, m.to + 1, Len(text)))
    IN  IF ~m.found THEN [narrative |-> Trim(text), updates |-> <<>>]
        ELSE IF Len(body) = 1 /\ body[1].t = "json"
        THEN [narrative |-> rest, updates |-> <<body[1].j>>]
        ELSE [narrative |-> rest, updates |-> <<>>]

\* String.prototype.toLowerCase on the names that occur
ToLowerCase(s) ==
    CASE s = "Mira" -> "mira"
      [] s = "Thorn" -> "thorn"
      [] s = "Orin" -> "orin"
      [] s = "Zed" -> "zed"
      [] OTHER -> s

\* the names are compared as they are written
FindCharacter_Exact(chars, charName) ==
    LET hits == {p \in DOMAIN chars : chars[p].name = charName}
    IN  IF hits = {} THEN 0 ELSE CHOOSE p \in hits : \A q \in hits : p <= q

\* routes.ts 225: characters.find, 0 when no name matches
FindCharacter(chars, charName) ==
    LET hits == {p \in DOMAIN chars :
                    ToLowerCase(chars[p].name) = ToLowerCase(charName)}
    IN  IF hits = {} THEN 0 ELSE CHOOSE p \in hits : \A q \in hits : p <= q

\* only the first occurrence of a named item is removed
UpdatedInventory_FirstOnly(inventory, ch) ==
    LET added == IF ch.addInventory # <<>>
                 THEN inventory \o ch.addInventory[1] ELSE inventory
        toRemove == IF ch.removeInventory # <<>>
                    THEN {ch.removeInventory[1].names[i] :
                            i \in 1..Len(ch.removeInventory[1].names)}
                    ELSE {}
        kept(i) == added[i] \notin toRemove
                     \/ \E k \in 1..(i - 1) : added[k] = added[i]
        idx == {i \in 1..Len(added) : kept(i)}
        nth(n) == CHOOSE i \in idx : Cardinality({k \in idx : k < i}) = n - 1
    IN  [n \in 1..Cardinality(idx) |-> added[nth(n)]]

\* routes.ts 237-245
UpdatedInventory(inventory, ch) ==
    LET added == IF ch.addInventory # <<>>
                 THEN inventory \o ch.addInventory[1] ELSE inventory
        toRemove == IF ch.removeInventory # <<>>
                    THEN {ch.removeInventory[1].names[i] :
                            i \in 1..Len(ch.removeInventory[1].names)}
                    ELSE {}
        kept(item) == item \notin toRemove
    IN  SelectSeq(added, kept)

\* the effect is appended whatever the names of the others are
UpdatedStatusEffects_NoDedup(statusEffects, ch) ==
    LET added == IF ch.addStatusEffect # <<>>
                 THEN Append(statusEffects, ch.addStatusEffect[1])
                 ELSE statusEffects
        kept(e) == ch.removeStatusEffect = <<>> \/ e.name # ch.removeStatusEffect[1]
    IN  SelectSeq(added, kept)

\* routes.ts 250-261
UpdatedStatusEffects(statusEffects, ch) ==
    LET added == IF ch.addStatusEffect # <<>>
                    /\ ~\E i \in 1..Len(statusEffects) :
                          statusEffects[i].name = ch.addStatusEffect[1].name
                 THEN Append(statusEffects, ch.addStatusEffect[1])
                 ELSE statusEffects
        kept(e) == ch.removeStatusEffect = <<>> \/ e.name # ch.removeStatusEffect[1]
    IN  SelectSeq(added, kept)

\* routes.ts 267-282
UpdatedAbilities(abilities, ch) ==
    LET added == IF ch.addAbility # <<>>
                    /\ ~\E i \in 1..Len(abilities) :
                          abilities[i].name = ch.addAbility[1].name
                 THEN Append(abilities, ch.addAbility[1]) ELSE abilities
        use(a) == IF a.name = ch.useAbility[1]
                  THEN [a EXCEPT !.currentCooldown = a.cooldown] ELSE a
    IN  IF ch.useAbility # <<>>
        THEN [i \in 1..Len(added) |-> use(added[i])] ELSE added

\* routes.ts 228-290: updateData is built from `character`, the copy handed
\* in, and written over the stored row field by field
UpdateData(stored, character, ch) ==
    [stored EXCEPT
       !.xp = IF ch.xp # Absent THEN ch.xp ELSE @,
       !.inventory = IF ch.addInventory # <<>> \/ ch.removeInventory # <<>>
                     THEN UpdatedInventory(character.inventory, ch) ELSE @,
       !.statusEffects = IF ch.addStatusEffect # <<>> \/ ch.removeStatusEffect # <<>>
                         THEN UpdatedStatusEffects(character.statusEffects, ch)
                         ELSE @,
       !.abilities = IF ch.addAbility # <<>> \/ ch.useAbility # <<>>
                     THEN UpdatedAbilities(character.abilities, ch) ELSE @]

\* a value of a key that is null where an object is expected
NullChanges == [null |-> TRUE]

\* routes.ts 231: reading changes.hp of null throws a TypeError, after the
\* character was found
ThrowsAt(entry, chars) ==
    FindCharacter(chars, entry.key) # 0 /\ entry.changes = NullChanges

ApplyThrows(updates, chars) == \E i \in 1..Len(updates) : ThrowsAt(updates[i], chars)

\* routes.ts 223-292: the entries are applied in key order; keys that name no
\* character of `chars` are skipped; the loop ends at an entry that throws
RECURSIVE ApplyCharacterUpdates(_, _, _)
ApplyCharacterUpdates(rows, updates, chars) ==
    IF updates = <<>> \/ ThrowsAt(Head(updates), chars) THEN rows
    ELSE LET p == FindCharacter(chars, Head(updates).key)
             written == IF p = 0 THEN rows
                        ELSE [rows EXCEPT ![p] =
                                UpdateData(rows[p], chars[p], Head(updates).changes)]
         IN  ApplyCharacterUpdates(written, Tail(updates), chars)

\* routes.ts 299-302
Cooled(a) ==
    [a EXCEPT !.currentCooldown = IF a.currentCooldown - 1 > 0
                                  THEN a.currentCooldown - 1 ELSE 0]

\* character.abilities.map(...) of routes.ts 299
CooledAll(abilities) == [i \in 1..Len(abilities) |-> Cooled(abilities[i])]

\* routes.ts 305-315: effects without a duration stay, the others stay with
\* one turn less while more than one turn is left
DecrementedEffects(statusEffects) ==
    LET kept(e) == e.duration = Absent \/ e.duration > 1
        lasting == SelectSeq(statusEffects, kept)
    IN  [i \in 1..Len(lasting) |->
           IF lasting[i].duration # Absent
           THEN [lasting[i] EXCEPT !.duration = @ - 1] ELSE lasting[i]]

\* routes.ts 295-321: characters of `chars` without abilities are skipped;
\* the lists written are computed from the copy handed in
DecrementCooldowns(rows, chars) ==
    [p \in DOMAIN rows |->
       IF p \in DOMAIN chars /\ Len(chars[p].abilities) > 0
       THEN [rows[p] EXCEPT !.abilities = CooledAll(chars[p].abilities),
                            !.statusEffects = DecrementedEffects(chars[p].statusEffects)]
       ELSE rows[p]]

\* routes.ts 597-618 and 636: the call returns one of `texts` or throws; the
\* reply is parsed
GeneratorReturn(r, texts) ==
    /\ req[r].pc = "callOpenRouter"
    /\ \E o \in GenOutcomes(apiKey), t \in texts \cup {MockText} :
         /\ IF o = "ok" THEN t \in texts ELSE t = MockText
         /\ LET parsed == ParseCharacterUpdates(t)
            IN  req' = [req EXCEPT
                   ![r].outcome = o,
                   ![r].aiResponse = IF o \in {"error", "empty"} THEN <<>> ELSE t,
                   ![r].narrative = IF o \in {"error", "empty"} THEN <<>>
                                    ELSE parsed.narrative,
                   ![r].updates = IF o \in {"error", "empty"} THEN <<>>
                                  ELSE parsed.updates,
                   ![r].pc = IF o \in {"error", "empty"} THEN "createFallback"
                             ELSE IF parsed.updates # <<>> THEN "applyCharacterUpdates"
                             ELSE "decrementCooldowns"]
    /\ response' = NoResponse
    /\ UNCHANGED <<players, hasActed, charRows, characters, messages,
                   turnPhase, currentTurn, apiKey, genCalls, decPasses>>

\* the narrator of Spec and SpecRound
MsgGeneratorReturn(r) == GeneratorReturn(r, GenTexts)

\* the error of the applier is swallowed and the round goes on
MsgApply_Continue(r) ==
    /\ req[r].pc = "applyCharacterUpdates"
    /\ characters' = ApplyCharacterUpdates(characters, req[r].updates[1], req[r].seenChars)
    /\ Goto(r, "decrementCooldowns")
    /\ UNCHANGED <<players, hasActed, charRows, messages, turnPhase,
                   currentTurn, apiKey, genCalls, decPasses>>

\* routes.ts 618-620 and 636: what the applier wrote before it threw stays
\* written and the catch block is entered
MsgApply(r) ==
    /\ req[r].pc = "applyCharacterUpdates"
    /\ characters' = ApplyCharacterUpdates(characters, req[r].updates[1], req[r].seenChars)
    /\ Goto(r, IF ApplyThrows(req[r].updates[1], req[r].seenChars)
               THEN "createFallback" ELSE "decrementCooldowns")
    /\ UNCHANGED <<players, hasActed, charRows, messages, turnPhase,
                   currentTurn, apiKey, genCalls, decPasses>>

\* routes.ts 623
MsgDecrement(r) ==
    /\ req[r].pc = "decrementCooldowns"
    /\ characters' = DecrementCooldowns(characters, req[r].seenChars)
    /\ decPasses' = decPasses + 1
    /\ Goto(r, "createNarrative")
    /\ UNCHANGED <<players, hasActed, charRows, messages, turnPhase,
                   currentTurn, apiKey, genCalls>>

\* routes.ts 626-634
MsgCreateNarrative(r) ==
    /\ req[r].pc = "createNarrative"
    /\ CreateMessage(Message("assistant", 0, req[r].narrative))
    /\ req' = [req EXCEPT ![r].pc = "resetPlayersActed", ![r].posted = "narrative"]
    /\ response' = NoResponse
    /\ UNCHANGED <<players, hasActed, charRows, characters, turnPhase,
                   currentTurn, apiKey, genCalls, decPasses>>

\* the catch block logs the error and stores nothing
MsgCreateFallback_Silent(r) ==
    /\ req[r].pc = "createFallback"
    /\ Goto(r, "resetPlayersActed")
    /\ UNCHANGED <<players, hasActed, charRows, characters, messages, turnPhase,
                   currentTurn, apiKey, genCalls, decPasses>>

\* the error leaves the handler: 500 from the outer catch of line 655
MsgCreateFallback_Rethrow(r) ==
    /\ req[r].pc = "createFallback"
    /\ Respond(r, 500)
    /\ UNCHANGED <<players, hasActed, charRows, characters, messages, turnPhase,
                   currentTurn, apiKey, genCalls, decPasses>>

\* routes.ts 636-646
MsgCreateFallback(r) ==
    /\ req[r].pc = "createFallback"
    /\ CreateMessage(Message("assistant", 0, FallbackText))
    /\ req' = [req EXCEPT ![r].pc = "resetPlayersActed", ![r].posted = "fallback"]
    /\ response' = NoResponse
    /\ UNCHANGED <<players, hasActed, charRows, characters, turnPhase,
                   currentTurn, apiKey, genCalls, decPasses>>

\* routes.ts 649, part_000 584-586
MsgResetActed(r) ==
    /\ req[r].pc = "resetPlayersActed"
    /\ hasActed' = [p \in PlayerIds |-> FALSE]
    /\ Goto(r, "getGame")
    /\ UNCHANGED <<players, charRows, characters, messages, turnPhase,
                   currentTurn, apiKey, genCalls, decPasses>>

\* routes.ts 650
MsgGetGame(r) ==
    /\ req[r].pc = "getGame"
    /\ req' = [req EXCEPT ![r].pc = "updateGameTurnPhase",
                          ![r].readTurn = currentTurn]
    /\ response' = NoResponse
    /\ UNCHANGED <<players, hasActed, charRows, characters, messages,
                   turnPhase, currentTurn, apiKey, genCalls, decPasses>>

\* routes.ts 651-654, part_000 551-555
MsgAdvanceTurn(r) ==
    /\ req[r].pc = "updateGameTurnPhase"
    /\ turnPhase' = WaitingForPlayers
    /\ currentTurn' = req[r].readTurn + 1
    /\ Respond(r, 200)
    /\ UNCHANGED <<players, hasActed, charRows, characters, messages,
                   apiKey, genCalls, decPasses>>

\* ------------------------------------------------------- specifications
Next ==
    \/ \E r \in ReqIds : JoinCheck(r)
    \/ \E r \in ReqIds : JoinCreatePlayer(r)
    \/ \E r \in ReqIds, p \in PlayerIds : CharCreate(r, p)
    \/ \E r \in ReqIds : CharCheck(r)
    \/ \E r \in ReqIds : CharReadMessages(r)
    \/ \E r \in ReqIds : CharOpening(r)
    \/ \E r \in ReqIds : StartCheck(r)
    \/ \E r \in ReqIds : StartReadMessages(r)
    \/ \E r \in ReqIds : StartOpening(r)
    \/ \E r \in ReqIds, p \in Credentials : UserMessages < MaxActions /\ MsgSubmit(r, p)
    \/ \E r \in ReqIds : MsgUpdateActed(r)
    \/ \E r \in ReqIds : MsgCheckAllActed(r)
    \/ \E r \in ReqIds : MsgSetAiProcessing(r)
    \/ \E r \in ReqIds : MsgReadContext(r)
    \/ \E r \in ReqIds : MsgGeneratorReturn(r)
    \/ \E r \in ReqIds : MsgApply(r)
    \/ \E r \in ReqIds : MsgDecrement(r)
    \/ \E r \in ReqIds : MsgCreateNarrative(r)
    \/ \E r \in ReqIds : MsgCreateFallback(r)
    \/ \E r \in ReqIds : MsgResetActed(r)
    \/ \E r \in ReqIds : MsgGetGame(r)
    \/ \E r \in ReqIds : MsgAdvanceTurn(r)

Spec == Init /\ [][Next]_vars

\* a session that is ready to play: only actions are submitted
NextRound ==
    \/ \E r \in ReqIds, p \in Credentials : UserMessages < MaxRoundActions /\ MsgSubmit(r, p)
    \/ \E r \in ReqIds : MsgUpdateActed(r)
    \/ \E r \in ReqIds : MsgCheckAllActed(r)
    \/ \E r \in ReqIds : MsgSetAiProcessing(r)
    \/ \E r \in ReqIds : MsgReadContext(r)
    \/ \E r \in ReqIds : MsgGeneratorReturn(r)
    \/ \E r \in ReqIds : MsgApply(r)
    \/ \E r \in ReqIds : MsgDecrement(r)
    \/ \E r \in ReqIds : MsgCreateNarrative(r)
    \/ \E r \in ReqIds : MsgCreateFallback(r)
    \/ \E r \in ReqIds : MsgResetActed(r)
    \/ \E r \in ReqIds : MsgGetGame(r)
    \/ \E r \in ReqIds : MsgAdvanceTurn(r)

SpecRound == InitRound /\ [][NextRound]_vars

\* the statements of a request that is being handled: the event loop resumes
\* a handler once its awaited store call or narrator call has settled
Step(r) ==
    \/ MsgUpdateActed(r) \/ MsgCheckAllActed(r) \/ MsgSetAiProcessing(r)
    \/ MsgReadContext(r) \/ MsgGeneratorReturn(r) \/ MsgApply(r)
    \/ MsgDecrement(r) \/ MsgCreateNarrative(r) \/ MsgCreateFallback(r)
    \/ MsgResetActed(r) \/ MsgGetGame(r) \/ MsgAdvanceTurn(r)

FairRound == SpecRound /\ \A r \in ReqIds : WF_vars(Step(r))

\* ------------------------------------------------ rounds that overlap
\* a ready session in which MaxTurnActions actions are submitted and the
\* narrator answers with a narration without payload
NextTurns ==
    \/ \E r \in ReqIds, p \in 1..MaxPlayers :
          UserMessages < MaxTurnActions /\ MsgSubmit(r, p)
    \/ \E r \in ReqIds : MsgUpdateActed(r)
    \/ \E r \in ReqIds : MsgCheckAllActed(r)
    \/ \E r \in ReqIds : MsgSetAiProcessing(r)
    \/ \E r \in ReqIds : MsgReadContext(r)
    \/ \E r \in ReqIds : GeneratorReturn(r, {NarrativeText})
    \/ \E r \in ReqIds : MsgDecrement(r)
    \/ \E r \in ReqIds : MsgCreateNarrative(r)
    \/ \E r \in ReqIds : MsgCreateFallback(r)
    \/ \E r \in ReqIds : MsgResetActed(r)
    \/ \E r \in ReqIds : MsgGetGame(r)
    \/ \E r \in ReqIds : MsgAdvanceTurn(r)

SpecTurns == InitRound /\ [][NextTurns]_vars

\* ------------------------------------------------- the parser in a round
\* the replies the narrator may give in SpecParse: every text of up to
\* MaxText tokens
ParserTokens ==
    {Word("narrative"), Space, BeginMarker, EndMarker, Junk,
     Json(<<Entry("Mira", [NoChanges EXCEPT !.xp = XpGrant])>>)}

ParserTexts == UNION {[1..n -> ParserTokens] : n \in 0..MaxText}

\* the request that completes a round, waiting for the narrator: the second
\* player's message of the round found the first player's flag set
Narrating(sheets) ==
    [Idle EXCEPT !.kind = "message", !.pc = "callOpenRouter",
                 !.player = MaxPlayers,
                 !.seenPlayers = 1..MaxPlayers, !.seenChars = sheets,
                 !.at0 = [turn |-> 0, acted |-> 1..(MaxPlayers - 1),
                          msgs |-> MaxPlayers, dec |-> 0]]

\* a round of a ready session at the narrator call of line 602
InitParse ==
    /\ players = 1..MaxPlayers
    /\ hasActed = [p \in PlayerIds |-> p \in 1..MaxPlayers]
    /\ charRows = [p \in PlayerIds |-> IF p \in 1..MaxPlayers THEN 1 ELSE 0]
    /\ characters = [p \in 1..MaxPlayers |-> NewSheet(p)]
    /\ messages = SetToBag({OpeningMessage})
                    (+) SetToBag({Message("user", p, ActionText) : p \in 1..MaxPlayers})
    /\ turnPhase = AiProcessing
    /\ currentTurn = 0
    /\ apiKey \in BOOLEAN
    /\ req = [r \in ReqIds |-> IF r = 1 THEN Narrating(characters) ELSE Idle]
    /\ response = NoResponse
    /\ genCalls = 1
    /\ decPasses = 0

NextParse ==
    \/ \E r \in ReqIds : GeneratorReturn(r, ParserTexts)
    \/ \E r \in ReqIds : MsgApply(r)
    \/ \E r \in ReqIds : MsgDecrement(r)
    \/ \E r \in ReqIds : MsgCreateNarrative(r)
    \/ \E r \in ReqIds : MsgCreateFallback(r)
    \/ \E r \in ReqIds : MsgResetActed(r)
    \/ \E r \in ReqIds : MsgGetGame(r)
    \/ \E r \in ReqIds : MsgAdvanceTurn(r)

SpecParse == InitParse /\ [][NextParse]_vars

\* ------------------------------------------------ the applier in a round
\* PATCH /api/characters/:id, routes.ts 677-687: the fields of the body are
\* written over the stored row of player p's character
PatchCharacter(r, p, body) ==
    /\ p \in DOMAIN characters
    /\ characters' = [characters EXCEPT ![p] = body @@ @]
    /\ ArriveAndRespond(r, "patch", 200)
    /\ UNCHANGED <<players, hasActed, charRows, messages, turnPhase,
                   currentTurn, apiKey, genCalls, decPasses>>

\* the body of the administrative patch: the inventory as the administrator
\* sets it
PatchBodies == {[inventory |-> <<"Amulet">>]}

Items == {"Torch", "Rope"}

Inventories == UNION {[1..n -> Items] : n \in 0..MaxItems}

Effect(name, duration) == [name |-> name, duration |-> duration]

Effects == {Effect("Poisoned", d) : d \in 1..MaxDuration} \cup {Effect("Blessed", Absent)}

\* the lists of status effects with pairwise distinct names
EffectLists ==
    {<<>>} \cup {<<e>> : e \in Effects}
           \cup {<<ef[1], ef[2]>> :
                   ef \in {x \in Effects \X Effects : x[1].name # x[2].name}}

AbilityLists ==
    {<<>>} \cup {<<[PowerStrike EXCEPT !.currentCooldown = n]>> : n \in 0..AbilityCooldown}

\* the sheets the first player's character can have after some rounds
Sheets ==
    {[NewSheet(1) EXCEPT !.inventory = inv, !.statusEffects = eff, !.abilities = abl] :
        inv \in Inventories, eff \in EffectLists, abl \in AbilityLists}

Remove(isArray, names) == [isArray |-> isArray, names |-> names]

\* one change of every kind, and the payload of the worked example
OneChanges ==
    {[NoChanges EXCEPT !.xp = XpGrant],
     [NoChanges EXCEPT !.xp = XpGrant, !.addInventory = <<(<<"Iron Sword">>)>>],
     [NoChanges EXCEPT !.addInventory = <<(<<"Iron Sword">>)>>],
     [NoChanges EXCEPT !.removeInventory = <<Remove(FALSE, <<"Torch">>)>>],
     [NoChanges EXCEPT !.removeInventory = <<Remove(TRUE, <<"Torch", "Rope">>)>>],
     [NoChanges EXCEPT !.addStatusEffect = <<Effect("Poisoned", MaxDuration + 1)>>],
     [NoChanges EXCEPT !.addStatusEffect = <<Effect("Burning", Absent)>>],
     [NoChanges EXCEPT !.removeStatusEffect = <<"Poisoned">>],
     [NoChanges EXCEPT !.addAbility = <<PowerStrike>>],
     [NoChanges EXCEPT !.useAbility = <<PowerStrike.name>>],
     [NoChanges EXCEPT !.addAbility = <<PowerStrike>>,
                       !.useAbility = <<PowerStrike.name>>]}

\* the changes of the payloads with two keys
TwoChanges ==
    {[NoChanges EXCEPT !.xp = XpGrant, !.addInventory = <<(<<"Iron Sword">>)>>],
     [NoChanges EXCEPT !.removeInventory = <<Remove(FALSE, <<"Torch">>)>>],
     [NoChanges EXCEPT !.addStatusEffect = <<Effect("Burning", Absent)>>],
     [NoChanges EXCEPT !.useAbility = <<PowerStrike.name>>]}

\* the payloads of SpecApply: one key naming the first character, or two
\* keys of which the first names no character or the same character
ApplierPayloads ==
    {<<Entry("Mira", ch)>> : ch \in OneChanges}
      \cup {<<Entry(k, c), Entry("Mira", d)>> :
              k \in {"Zed", "mira"}, c \in TwoChanges, d \in TwoChanges}

ApplierTexts ==
    {NarrativeText \o <<BeginMarker, Json(u), EndMarker>> : u \in ApplierPayloads}

\* a round of a ready session at the narrator call of line 602, the first
\* character with one of Sheets
InitApply ==
    /\ players = 1..MaxPlayers
    /\ hasActed = [p \in PlayerIds |-> p \in 1..MaxPlayers]
    /\ charRows = [p \in PlayerIds |-> IF p \in 1..MaxPlayers THEN 1 ELSE 0]
    /\ characters \in {[p \in 1..MaxPlayers |-> IF p = 1 THEN s ELSE NewSheet(p)] :
                         s \in Sheets}
    /\ messages = SetToBag({OpeningMessage})
                    (+) SetToBag({Message("user", p, ActionText) : p \in 1..MaxPlayers})
    /\ turnPhase = AiProcessing
    /\ currentTurn = 0
    /\ apiKey \in BOOLEAN
    /\ req = [r \in ReqIds |-> IF r = 1 THEN Narrating(characters) ELSE Idle]
    /\ response = NoResponse
    /\ genCalls = 1
    /\ decPasses = 0

NextApply ==
    \/ \E r \in ReqIds : GeneratorReturn(r, ApplierTexts)
    \/ \E r \in ReqIds, body \in PatchBodies : PatchCharacter(r, 1, body)
    \/ \E r \in ReqIds : MsgApply(r)
    \/ \E r \in ReqIds : MsgDecrement(r)
    \/ \E r \in ReqIds : MsgCreateNarrative(r)
    \/ \E r \in ReqIds : MsgCreateFallback(r)
    \/ \E r \in ReqIds : MsgResetActed(r)
    \/ \E r \in ReqIds : MsgGetGame(r)
    \/ \E r \in ReqIds : MsgAdvanceTurn(r)

SpecApply == InitApply /\ [][NextApply]_vars

\* ------------------------------------------ the applier that fails
\* payloads with null as the value of a key: after an entry that was
\* written, before it, alone, and for a key that names no character
FailingPayloads ==
    {<<Entry("Mira", ch), Entry("Thorn", NullChanges)>> : ch \in TwoChanges}
      \cup {<<Entry("Thorn", NullChanges), Entry("Mira", ch)>> : ch \in TwoChanges}
      \cup {<<Entry("Zed", NullChanges), Entry("Mira", ch)>> : ch \in TwoChanges}
      \cup {<<Entry("Thorn", NullChanges)>>}

FailingTexts ==
    {NarrativeText \o <<BeginMarker, Json(u), EndMarker>> : u \in FailingPayloads}

NextFail ==
    \/ \E r \in ReqIds : GeneratorReturn(r, FailingTexts)
    \/ \E r \in ReqIds : MsgApply(r)
    \/ \E r \in ReqIds : MsgDecrement(r)
    \/ \E r \in ReqIds : MsgCreateNarrative(r)
    \/ \E r \in ReqIds : MsgCreateFallback(r)
    \/ \E r \in ReqIds : MsgResetActed(r)
    \/ \E r \in ReqIds : MsgGetGame(r)
    \/ \E r \in ReqIds : MsgAdvanceTurn(r)

SpecFail == InitApply /\ [][NextFail]_vars

\* ----------------------------------------------- the transcript of a round
\* a row of getMessagesByGame, in the order of the timestamps; diceRoll is
\* <<>> for null
Row(role, playerId, content, diceRoll) ==
    [role |-> role, playerId |-> playerId, content |-> content,
     diceRoll |-> diceRoll]

\* the line break between joined messages and the parts added to a message
Break == Token("break", "", <<>>)
SystemPrompt == <<Word("system")>>
DiceCue == <<Word("cue")>>
Rolled == <<Word("rolled")>>

Block(role, content) == [role |-> role, content |-> content]

\* routes.ts 552: the first delimited region is replaced by nothing, then trim
CleanContent(content) ==
    LET m == UpdateMatch(content)
    IN  IF ~m.found THEN Trim(content)
        ELSE Trim(SubSeq(content, 1, m.from - 1)
                    \o SubSeq(content, m.to + 1, Len(content)))

\* routes.ts 546: allMessages.filter(m => m.role === "user").slice(-n), as
\* positions of allMessages
LastRoundMessages(allMessages, n) ==
    LET users == {i \in 1..Len(allMessages) : allMessages[i].role = "user"}
    IN  {i \in users : Cardinality({k \in users : k > i}) < n}

\* routes.ts 549-565: the entry made of row i
HistoryEntry(allMessages, i, n) ==
    LET m == allMessages[i]
        named == <<Word(CharName(m.playerId))>> \o m.content
        cued == i \in LastRoundMessages(allMessages, n)
    IN  IF m.role = "assistant" THEN Block("assistant", CleanContent(m.content))
        ELSE IF m.diceRoll = <<>> THEN Block("user", named)
        ELSE IF cued THEN Block("user", DiceCue \o <<Break>> \o named \o Rolled)
        ELSE Block("user", named \o Rolled)

ConversationHistory(allMessages, n) ==
    [i \in 1..Len(allMessages) |-> HistoryEntry(allMessages, i, n)]

\* currentUserMessages.join("\n\n")
RECURSIVE Join(_)
Join(contents) ==
    IF contents = <<>> THEN <<>>
    ELSE IF Len(contents) = 1 THEN contents[1]
    ELSE contents[1] \o <<Break>> \o Join(Tail(contents))

\* the user messages still held when the loop ends are dropped
RECURSIVE Consolidate_NoFlush(_, _, _)
Consolidate_NoFlush(history, consolidated, current) ==
    IF history = <<>> THEN consolidated
    ELSE IF Head(history).role = "user"
    THEN Consolidate_NoFlush(Tail(history), consolidated,
                             Append(current, Head(history).content))
    ELSE Consolidate_NoFlush(Tail(history),
             (IF current # <<>> THEN Append(consolidated, Block("user", Join(current)))
              ELSE consolidated) \o <<Head(history)>>,
             <<>>)

\* routes.ts 568-589: the loop over conversationHistory with the user
\* messages collected so far, and the flush after the loop
RECURSIVE Consolidate(_, _, _)
Consolidate(history, consolidated, current) ==
    IF history = <<>>
    THEN IF current # <<>> THEN Append(consolidated, Block("user", Join(current)))
         ELSE consolidated
    ELSE IF Head(history).role = "user"
    THEN Consolidate(Tail(history), consolidated,
                     Append(current, Head(history).content))
    ELSE Consolidate(Tail(history),
             (IF current # <<>> THEN Append(consolidated, Block("user", Join(current)))
              ELSE consolidated) \o <<Head(history)>>,
             <<>>)

\* routes.ts 591-594
AiMessages(allMessages, n) ==
    <<Block("system", SystemPrompt)>>
      \o Consolidate(ConversationHistory(allMessages, n), <<>>, <<>>)

\* routes.ts 539-602: the messages were read; the transcript is built and
\* the narration is requested
MsgBuildTranscript(r) ==
    /\ req[r].pc = "buildTranscript"
    /\ req' = [req EXCEPT
                 ![r].aiMessages = AiMessages(req[r].allMessages,
                                              Cardinality(req[r].seenPlayers)),
                 ![r].pc = "callOpenRouter"]
    /\ response' = NoResponse
    /\ genCalls' = genCalls + 1
    /\ UNCHANGED <<players, hasActed, charRows, characters, messages,
                   turnPhase, currentTurn, apiKey, decPasses>>

\* the rows of a session: actions of both players without and with a dice
\* roll, narrations without and with a delimited region left in them
HistoryRows ==
    {Row("user", p, ActionText, d) : p \in 1..MaxPlayers, d \in {<<>>, <<"1d2">>}}
      \cup {Row("assistant", 0, c, <<>>) :
              c \in {NarrativeText,
                     <<BeginMarker, Junk, EndMarker, Space>> \o OpeningText}}

\* the histories a round can end with: every player has submitted an action
Histories ==
    {h \in UNION {[1..n -> HistoryRows] : n \in 0..MaxHistory} :
        \A p \in 1..MaxPlayers : \E i \in 1..Len(h) : h[i].playerId = p}

RECURSIVE Stored(_)
Stored(h) ==
    IF h = <<>> THEN EmptyBag
    ELSE SetToBag({Message(Head(h).role, Head(h).playerId, Head(h).content)})
           (+) Stored(Tail(h))

\* a round of a ready session after the read of the messages of line 539
InitTranscript ==
    /\ players = 1..MaxPlayers
    /\ hasActed = [p \in PlayerIds |-> p \in 1..MaxPlayers]
    /\ charRows = [p \in PlayerIds |-> IF p \in 1..MaxPlayers THEN 1 ELSE 0]
    /\ characters = [p \in 1..MaxPlayers |-> NewSheet(p)]
    /\ \E h \in Histories :
         /\ messages = Stored(h)
         /\ req = [r \in ReqIds |->
                     IF r = 1
                     THEN [Idle EXCEPT !.kind = "message", !.pc = "buildTranscript",
                                       !.player = MaxPlayers, !.alone = FALSE,
                                       !.seenPlayers = 1..MaxPlayers,
                                       !.seenChars = characters,
                                       !.allMessages = h]
                     ELSE Idle]
    /\ turnPhase = AiProcessing
    /\ currentTurn = 0
    /\ apiKey = FALSE
    /\ response = NoResponse
    /\ genCalls = 0
    /\ decPasses = 0

NextTranscript == \E r \in ReqIds : MsgBuildTranscript(r)

SpecTranscript == InitTranscript /\ [][NextTranscript]_vars

\* ------------------------------------------------- POST /api/dice/roll
\* a notation is a sequence of characters
DiceChars == {"0", "1", "2", "d", "D", "+", "-", "x"}

Notations == UNION {[1..n -> DiceChars] : n \in 0..MaxNotation}

\* \d
IsDigit(c) == c \in {"0", "1", "2"}

DigitValue(c) == CASE c = "0" -> 0 [] c = "1" -> 1 [] c = "2" -> 2

\* the last index of the longest run of digits that starts at i (i - 1 when
\* no digit is at i): what a greedy \d+ takes
RunEnd(text, i) ==
    LET stops == {k \in i..(Len(text) + 1) : k = Len(text) + 1 \/ ~IsDigit(text[k])}
    IN  (CHOOSE k \in stops : \A n \in stops : k <= n) - 1

\* parseInt of digits with an optional sign in front
RECURSIVE ParseInt(_)
ParseInt(s) ==
    IF s = <<>> THEN 0
    ELSE IF Head(s) = "-" THEN 0 - ParseInt(Tail(s))
    ELSE IF Head(s) = "+" THEN ParseInt(Tail(s))
    ELSE 10 * ParseInt(SubSeq(s, 1, Len(s) - 1)) + DigitValue(s[Len(s)])

\* routes.ts 9: dice.match(/(\d+)d(\d+)([+-]\d+)?/i), the leftmost match in
\* the string; modifier is <<>> when the optional group took nothing
DiceMatch(text) ==
    LET matches(i) == /\ IsDigit(text[i])
                      /\ RunEnd(text, i) + 2 <= Len(text)
                      /\ text[RunEnd(text, i) + 1] \in {"d", "D"}
                      /\ IsDigit(text[RunEnd(text, i) + 2])
        starts == {i \in 1..Len(text) : matches(i)}
        b == CHOOSE i \in starts : \A k \in starts : i <= k
        n == RunEnd(text, b)
        m == RunEnd(text, n + 2)
        signed == /\ m + 2 <= Len(text)
                  /\ text[m + 1] \in {"+", "-"}
                  /\ IsDigit(text[m + 2])
    IN  IF starts = {}
        THEN [found |-> FALSE, numDice |-> <<>>, sides |-> <<>>, modifier |-> <<>>]
        ELSE [found |-> TRUE, numDice |-> SubSeq(text, b, n),
              sides |-> SubSeq(text, n + 2, m),
              modifier |-> IF signed THEN SubSeq(text, m + 1, RunEnd(text, m + 2))
                           ELSE <<>>]

\* the notations rolled under SpecDice: those that make rollDice throw at
\* most MaxDice dice
DiceInputs ==
    {d \in Notations : DiceMatch(d).found => ParseInt(DiceMatch(d).numDice) <= MaxDice}

\* the faces start at 0
Faces_FromZero(sides) == 0..(sides - 1)

\* routes.ts 16: Math.floor(Math.random() * sides) + 1, Math.random() in [0, 1)
Faces(sides) == IF sides = 0 THEN {1} ELSE 1..sides

RECURSIVE SumSeq(_)
SumSeq(rolls) == IF rolls = <<>> THEN 0 ELSE Head(rolls) + SumSeq(Tail(rolls))

\* routes.ts 8-23: the values rollDice can return for a matched notation
RollDice(m) ==
    {[result |-> SumSeq(rolls) + (IF m.modifier # <<>> THEN ParseInt(m.modifier) ELSE 0),
      rolls |-> rolls] :
        rolls \in [1..ParseInt(m.numDice) -> Faces(ParseInt(m.sides))]}

DiceResponse(st, dice, body) ==
    [kind |-> "dice", status |-> st, dice |-> dice, body |-> body]

\* routes.ts 662-674: 400 without a dice parameter and when rollDice throws
DiceRoll(r) ==
    /\ req[r].pc = "rollDice"
    /\ LET dice == req[r].dice
       IN  IF dice = <<>> \/ ~DiceMatch(dice).found
           THEN response' = DiceResponse(400, dice, <<>>)
           ELSE \E res \in RollDice(DiceMatch(dice)) :
                    response' = DiceResponse(200, dice, <<res>>)
    /\ req' = [req EXCEPT ![r] = Idle]
    /\ UNCHANGED <<players, hasActed, charRows, characters, messages,
                   turnPhase, currentTurn, apiKey, genCalls, decPasses>>

\* a roll request with one of DiceInputs as its dice parameter, at a server
\* with a new game
InitDice ==
    /\ players = {}
    /\ hasActed = [p \in PlayerIds |-> FALSE]
    /\ charRows = [p \in PlayerIds |-> 0]
    /\ characters = <<>>
    /\ messages = EmptyBag
    /\ turnPhase = WaitingForPlayers
    /\ currentTurn = 0
    /\ apiKey = FALSE
    /\ req \in {[r \in ReqIds |->
                   IF r = 1 THEN [Idle EXCEPT !.kind = "dice", !.pc = "rollDice",
                                              !.dice = d]
                   ELSE Idle] : d \in DiceInputs}
    /\ response = NoResponse
    /\ genCalls = 0
    /\ decPasses = 0

NextDice == \E r \in ReqIds : DiceRoll(r)

SpecDice == InitDice /\ [][NextDice]_vars

\* ---------------------------------------------------------- vocabulary
Quiet == \A r \in ReqIds : ~InFlight(r)

\* from the phase write of line 530 up to the turn write of line 651
PipelinePcs ==
    {"readContext", "callOpenRouter", "applyCharacterUpdates",
     "decrementCooldowns", "createNarrative", "createFallback",
     "resetPlayersActed", "getGame", "updateGameTurnPhase"}

InPipeline(r) == req[r].pc \in PipelinePcs

Others(r) == players \ {req[r].player}

\* a submit-action request whose handling no other request has overlapped
AloneMessage(r) == req[r].kind = "message" /\ req[r].alone

Finishes(r) == InFlight(r) /\ req'[r].pc = "idle"

ActedPlayers == {q \in players : hasActed[q]}

UserMessagesOf(p) == CopiesIn(Message("user", p, ActionText), messages)

Narrations == CountRole("assistant") - CopiesIn(OpeningMessage, messages)

\* ------------------------------------------------------------------ C1
C1_State ==
    \A r \in ReqIds : AloneMessage(r) /\ Cardinality(players) = 2 =>
        /\ req[r].pc \in {"updatePlayerActed", "getPlayersByGame"} =>
             turnPhase = WaitingForPlayers /\ currentTurn = req[r].at0.turn
        /\ req[r].pc = "setAiProcessing" \/ InPipeline(r) =>
             Others(r) \subseteq req[r].at0.acted
        /\ InPipeline(r) /\ req[r].pc # "updateGameTurnPhase" =>
             currentTurn = req[r].at0.turn
        /\ InPipeline(r) => turnPhase = AiProcessing

C1_Step ==
    \A r \in ReqIds : AloneMessage(r) /\ Cardinality(players) = 2 /\ Finishes(r) =>
        /\ req[r].at0.acted = {} =>
             /\ turnPhase' = WaitingForPlayers
             /\ currentTurn' = req[r].at0.turn
             /\ ActedPlayers' = {req[r].player}
        /\ req[r].at0.acted = Others(r) =>
             /\ req[r].pc = "updateGameTurnPhase"
             /\ turnPhase = AiProcessing /\ turnPhase' = WaitingForPlayers
             /\ currentTurn' = req[r].at0.turn + 1
             /\ ActedPlayers' = {}

C2_OneNarrationPerRound ==
    (/\ Quiet /\ Cardinality(players) = 2
     /\ \A p \in players : UserMessagesOf(p) = 1)
    => (genCalls = 1 /\ Narrations = 1 /\ currentTurn = 1)

\* ------------------------------------------------------------------ C3
\* C3: at most one request of the session is between the phase write and the
\* turn write, so at most one narration is being requested and at most one
\* payload is being applied.
C3_OnePipeline == Cardinality({r \in ReqIds : InPipeline(r)}) <= 1

Failed(r) == req[r].kind = "message" /\ req[r].outcome \in {"error", "empty"}

\* xp and inventory as read for the narration; abilities and status effects
\* as read, or as the decrement pass of the round leaves them
NoMutation(r) ==
    \A p \in DOMAIN req[r].seenChars :
        /\ characters[p].name = req[r].seenChars[p].name
        /\ characters[p].xp = req[r].seenChars[p].xp
        /\ characters[p].inventory = req[r].seenChars[p].inventory
        /\ characters[p].abilities \in
             {req[r].seenChars[p].abilities,
              CooledAll(req[r].seenChars[p].abilities)}
        /\ characters[p].statusEffects \in
             {req[r].seenChars[p].statusEffects,
              DecrementedEffects(req[r].seenChars[p].statusEffects)}

C5_State ==
    \A r \in ReqIds : Failed(r) =>
        /\ req[r].pc \in {"createFallback", "resetPlayersActed", "getGame",
                          "updateGameTurnPhase"}
        /\ req[r].pc # "createFallback" => req[r].posted = "fallback"
        /\ req[r].alone => NoMutation(r)
        /\ req[r].alone /\ req[r].pc # "createFallback" =>
             BagCardinality(messages) = req[r].at0.msgs + 2

C5_Step ==
    \A r \in ReqIds : Failed(r) /\ Finishes(r) =>
        /\ response' = [kind |-> "message", status |-> 200]
        /\ turnPhase' = WaitingForPlayers
        /\ req[r].alone =>
             /\ currentTurn' = req[r].at0.turn + 1
             /\ ActedPlayers' = {}
             /\ BagCardinality(messages') = req[r].at0.msgs + 2
             /\ characters' = characters

\* C5: a request whose narrator call failed stores the fallback narration and
\* nothing else, applies no payload, and answers 200 with the phase
\* waiting-for-players; handled alone, it leaves the player's message and the
\* fallback as the only new messages, the turn counter one higher and every
\* flag false.
C5_FallbackRound == []C5_State /\ [][C5_Step]_vars

C5_Reached ==
    /\ Quiet /\ response = [kind |-> "message", status |-> 200]
    /\ CopiesIn(Message("assistant", 0, FallbackText), messages) = 1
    /\ Narrations = 1 /\ genCalls = 1 /\ currentTurn = 1 /\ ActedPlayers = {}
    /\ \A p \in players : characters[p] = NewSheet(p)

\* ------------------------------------------------------------------ C6
\* C6: a request that completes a round, handled alone, has run the decrement
\* pass exactly once when it writes the turn counter, also when the narrator
\* call failed.
C6_DecrementEveryRound ==
    \A r \in ReqIds : AloneMessage(r) /\ req[r].pc = "updateGameTurnPhase" =>
        decPasses = req[r].at0.dec + 1

\* ------------------------------------------------------------------ C7
\* C7: the session never holds more than two players, and a join answered
\* when the session already holds two players is answered 400 and inserts no
\* player.
C7_AtMostTwoPlayers ==
    /\ [](Cardinality(players) <= MaxPlayers)
    /\ [][Cardinality(players) >= MaxPlayers /\ response'.kind = "join"
            => response'.status = 400 /\ players' = players]_vars

\* ------------------------------------------------------------------ C8
\* C8: no player has more than one character row.
C8_OneCharacterPerPlayer == \A p \in PlayerIds : charRows[p] <= 1

\* ------------------------------------------------------------------ C9
\* C9: while fewer than two players have joined, the phase is
\* waiting-for-players, the turn counter is 0, no narration was requested and
\* no request has found the round complete.
C9_NoRoundBelowTwo ==
    Cardinality(players) < 2 =>
        /\ turnPhase = WaitingForPlayers /\ currentTurn = 0 /\ genCalls = 0
        /\ \A r \in ReqIds : req[r].pc # "setAiProcessing" /\ ~InPipeline(r)

C9_Reached ==
    /\ Cardinality(players) = 1 /\ Quiet
    /\ \E p \in players : hasActed[p] /\ UserMessagesOf(p) = MaxActions
    /\ response = [kind |-> "message", status |-> 200]

\* ----------------------------------------------------------------- C10
\* a step of the manual start handler: its arrival or one of its statements
StartStep ==
    \/ response'.kind = "start"
    \/ \E r \in ReqIds : /\ req'[r].kind = "start"
                         /\ req[r].pc # req'[r].pc

CharactersOfSession == Cardinality(DOMAIN ValidCharacters(players))

\* C10 as claimed: a manual start for a session with fewer than two joined
\* players is answered with the opening narration, and no step of the manual
\* start changes a flag, the phase or the turn counter.
C10_StartBypassesGate ==
    /\ [](response.kind = "start" /\ Cardinality(players) < 2
            => response.status = 200)
    /\ [][StartStep => UNCHANGED <<hasActed, turnPhase, currentTurn>>]_vars

\* C10 as amended: a manual start is rejected unless two players of the
\* session have characters, it stores an opening narration only in that case,
\* and no step of it changes a flag, the phase or the turn counter.
C10_StartKeepsGate ==
    /\ [](response.kind = "start" /\ CharactersOfSession < 2
            => response.status = 400)
    /\ [][StartStep =>
            /\ UNCHANGED <<hasActed, turnPhase, currentTurn>>
            /\ messages' # messages =>
                 /\ messages' = messages (+) SetToBag({OpeningMessage})
                 /\ CharactersOfSession >= 2]_vars

C10_Reached ==
    /\ response = [kind |-> "start", status |-> 200]
    /\ CopiesIn(OpeningMessage, messages) = 1
    /\ turnPhase = WaitingForPlayers /\ currentTurn = 0 /\ ActedPlayers = {}

\* ----------------------------------------------------------------- C11
\* C11: the session never holds more than one opening narration, and a step
\* that stores an opening narration starts from a session without messages.
C11_OneOpening ==
    /\ [](CopiesIn(OpeningMessage, messages) <= 1)
    /\ [][CopiesIn(OpeningMessage, messages') > CopiesIn(OpeningMessage, messages)
            => messages = EmptyBag]_vars

\* ----------------------------------------------------------------- C12
MarkersAt(text, t) == {i \in 1..Len(text) : text[i].t = t}

\* one begin marker and one end marker, in this order
OnePair(text) ==
    /\ Cardinality(MarkersAt(text, "begin")) = 1
    /\ Cardinality(MarkersAt(text, "end")) = 1
    /\ \A b \in MarkersAt(text, "begin"), e \in MarkersAt(text, "end") : b < e

Between(text) ==
    LET b == CHOOSE i \in MarkersAt(text, "begin") : TRUE
        e == CHOOSE i \in MarkersAt(text, "end") : TRUE
    IN  SubSeq(text, b + 1, e - 1)

Outside(text) ==
    LET b == CHOOSE i \in MarkersAt(text, "begin") : TRUE
        e == CHOOSE i \in MarkersAt(text, "end") : TRUE
    IN  SubSeq(text, 1, b - 1) \o SubSeq(text, e + 1, Len(text))

IsJsonObject(text) == Len(text) = 1 /\ text[1].t = "json"

\* the narrator answered with one marker pair around text that is no JSON
Malformed(r) ==
    /\ req[r].kind = "message" /\ req[r].outcome = "ok"
    /\ OnePair(req[r].aiResponse)
    /\ ~IsJsonObject(Trim(Between(req[r].aiResponse)))

C12_State ==
    \A r \in ReqIds : Malformed(r) =>
        /\ req[r].pc \in {"decrementCooldowns", "createNarrative",
                          "resetPlayersActed", "getGame", "updateGameTurnPhase"}
        /\ req[r].updates = <<>>
        /\ req[r].narrative = Trim(Outside(req[r].aiResponse))
        /\ req[r].alone => NoMutation(r)
        /\ req[r].pc \in {"resetPlayersActed", "getGame", "updateGameTurnPhase"} =>
             /\ req[r].posted = "narrative"
             /\ BagIn(Message("assistant", 0, Trim(Outside(req[r].aiResponse))),
                      messages)
             /\ req[r].alone => BagCardinality(messages) = req[r].at0.msgs + 2

C12_Step ==
    \A r \in ReqIds : Malformed(r) /\ Finishes(r) =>
        /\ response' = [kind |-> "message", status |-> 200]
        /\ turnPhase' = WaitingForPlayers
        /\ req[r].alone =>
             /\ currentTurn' = req[r].at0.turn + 1
             /\ ActedPlayers' = {}
             /\ characters' = characters

\* C12: a request whose narrator reply holds a marker pair around text that
\* is no JSON applies no payload, stores the reply without the marked span as
\* the assistant message and answers 200; handled alone, it changes no
\* character field by a mutation and leaves every flag false and the turn
\* counter one higher.
C12_MalformedPayload == []C12_State /\ [][C12_Step]_vars

C12_Reached ==
    \E r \in ReqIds :
        /\ req[r].aiResponse = <<Word("narrative"), BeginMarker, Junk, EndMarker>>
        /\ req[r].pc = "updateGameTurnPhase" /\ req[r].alone
        /\ BagIn(Message("assistant", 0, <<Word("narrative")>>), messages)
        /\ ActedPlayers = {} /\ decPasses = 1
        /\ \A p \in players : characters[p] = NewSheet(p)

\* ----------------------------------------------------------------- C13
\* a begin marker with an end marker after it
HasRegion(text) ==
    \E b \in MarkersAt(text, "begin"), e \in MarkersAt(text, "end") : b < e

\* C13: no stored assistant message and no narrative returned by the parser
\* holds a delimited region, and a reply without a delimited region gives its
\* trimmed text as the narrative and no payload.
C13_CleanNarrative ==
    /\ \A m \in BagToSet(messages) : m.role = "assistant" => ~HasRegion(m.content)
    /\ \A r \in ReqIds : req[r].kind = "message" /\ req[r].outcome \in {"ok", "mock"} =>
         /\ ~HasRegion(req[r].narrative)
         /\ ~HasRegion(req[r].aiResponse) =>
              /\ req[r].narrative = Trim(req[r].aiResponse)
              /\ req[r].updates = <<>>

\* ------------------------------------------- vocabulary of the applier
ApplyStep(r) ==
    req[r].pc = "applyCharacterUpdates" /\ req'[r].pc = "decrementCooldowns"

DecrementStep(r) ==
    req[r].pc = "decrementCooldowns" /\ req'[r].pc = "createNarrative"

\* the entries of the payload whose key is the name of player p's character,
\* letter case apart
EntriesFor(r, p) ==
    LET named(e) == ToLowerCase(e.key) = ToLowerCase(characters[p].name)
    IN  SelectSeq(req[r].updates[1], named)

WorkedExample ==
    [NoChanges EXCEPT !.xp = XpGrant, !.addInventory = <<(<<"Iron Sword">>)>>]

\* ----------------------------------------------------------------- C14
C14_Step ==
    \A r \in ReqIds : ApplyStep(r) /\ req[r].alone =>
        \A p \in DOMAIN characters :
            /\ Len(EntriesFor(r, p)) = 0 => characters'[p] = characters[p]
            /\ (/\ Len(EntriesFor(r, p)) = 1
                /\ EntriesFor(r, p)[1] = Entry("Mira", WorkedExample)
                /\ characters[p].name = "mira")
               => characters'[p] =
                    [characters[p] EXCEPT !.xp = XpGrant,
                                          !.inventory = @ \o <<"Iron Sword">>]

\* C14: applying a payload, a character no key names (letter case apart) is
\* left as it is; the key Mira with xp 25 and addInventory [Iron Sword] sets
\* the xp of the character named mira to 25 and appends Iron Sword once, also
\* after a key that names no character; and a reply that was answered by the
\* narrator never takes the error path.
C14_KeysByName ==
    /\ [](\A r \in ReqIds : req[r].outcome = "ok" => req[r].pc # "createFallback")
    /\ [][C14_Step]_vars

C14_Reached ==
    \E r \in ReqIds :
        /\ req[r].pc = "decrementCooldowns" /\ req[r].alone
        /\ req[r].updates = <<(<<Entry("Zed", WorkedExample),
                                 Entry("Mira", WorkedExample)>>)>>
        /\ req[r].seenChars[1].inventory = <<"Torch">>
        /\ characters[1].xp = XpGrant
        /\ characters[1].inventory = <<"Torch", "Iron Sword">>
        /\ characters[2] = NewSheet(2)

\* ----------------------------------------------------------------- C15
RECURSIVE Without(_, _)
Without(inventory, names) ==
    IF inventory = <<>> THEN <<>>
    ELSE IF Head(inventory) \in names THEN Without(Tail(inventory), names)
    ELSE <<Head(inventory)>> \o Without(Tail(inventory), names)

Named(remove) == {remove.names[i] : i \in 1..Len(remove.names)}

Carried(inventory) == {inventory[i] : i \in 1..Len(inventory)}

C15_Step ==
    \A r \in ReqIds : ApplyStep(r) /\ req[r].alone =>
        \A p \in DOMAIN characters :
            (/\ Len(EntriesFor(r, p)) = 1
             /\ EntriesFor(r, p)[1].changes.removeInventory # <<>>
             /\ EntriesFor(r, p)[1].changes.addInventory = <<>>)
            => LET ch == EntriesFor(r, p)[1].changes
                   names == Named(ch.removeInventory[1])
               IN  /\ characters'[p].inventory = Without(characters[p].inventory, names)
                   /\ Carried(characters'[p].inventory) \cap names = {}
                   /\ Carried(characters[p].inventory) \cap names = {}
                        => characters'[p].inventory = characters[p].inventory
                   /\ UpdatedInventory(characters'[p].inventory, ch)
                        = characters'[p].inventory

\* C15: applying removeInventory, with one name or a list of names, leaves
\* the inventory without any occurrence of a named item and with the other
\* items in their order; an inventory that holds no named item is unchanged;
\* removing the same names from the result changes nothing.
C15_RemoveInventory == [][C15_Step]_vars

C15_Reached ==
    \E r \in ReqIds :
        /\ req[r].pc = "decrementCooldowns" /\ req[r].alone
        /\ req[r].updates = <<(<<Entry("Mira",
              [NoChanges EXCEPT !.removeInventory = <<Remove(FALSE, <<"Torch">>)>>])>>)>>
        /\ req[r].seenChars[1].inventory = <<"Torch", "Rope", "Torch">>
        /\ characters[1].inventory = <<"Rope">>

\* ----------------------------------------------------------------- C16
DistinctNames(list) ==
    \A i, k \in 1..Len(list) : list[i].name = list[k].name => i = k

\* C16: no character has two status effects of one name or two abilities of
\* one name, in any state of a round that started with distinct names.
C16_DistinctNames ==
    \A p \in DOMAIN characters :
        /\ DistinctNames(characters[p].statusEffects)
        /\ DistinctNames(characters[p].abilities)

C16_Reached ==
    \E r \in ReqIds :
        /\ req[r].pc = "decrementCooldowns" /\ req[r].alone
        /\ req[r].updates = <<(<<Entry("Mira",
              [NoChanges EXCEPT !.addStatusEffect =
                                   <<Effect("Poisoned", MaxDuration + 1)>>])>>)>>
        /\ characters[1].statusEffects = <<Effect("Poisoned", 1)>>

\* ----------------------------------------------------------------- C17
HasNamed(list, name) == \E i \in 1..Len(list) : list[i].name = name

TheNamed(list, name) == list[CHOOSE i \in 1..Len(list) : list[i].name = name]

\* the round's payload, applied and followed by the decrement pass, as it is
\* claimed to be stored for the character of player p
C17_Stored(r, p) ==
    LET ch == EntriesFor(r, p)[1].changes
        before == req[r].seenChars[p]
        now == characters[p]
    IN  /\ (ch.useAbility # <<>> /\ HasNamed(before.abilities, ch.useAbility[1]))
             => /\ HasNamed(now.abilities, ch.useAbility[1])
                /\ TheNamed(now.abilities, ch.useAbility[1]).currentCooldown
                     = TheNamed(before.abilities, ch.useAbility[1]).cooldown - 1
        /\ (ch.addAbility # <<>> /\ ~HasNamed(before.abilities, ch.addAbility[1].name))
             => HasNamed(now.abilities, ch.addAbility[1].name)
        /\ (ch.addStatusEffect # <<>>
              /\ ~HasNamed(before.statusEffects, ch.addStatusEffect[1].name))
             => /\ HasNamed(now.statusEffects, ch.addStatusEffect[1].name)
                /\ TheNamed(now.statusEffects, ch.addStatusEffect[1].name).duration
                     = IF ch.addStatusEffect[1].duration = Absent THEN Absent
                       ELSE ch.addStatusEffect[1].duration - 1

\* C17: when a request handled alone has applied a payload and run the
\* decrement pass, an ability the payload used is stored with its total
\* cooldown less one, and an ability or status effect the payload added is
\* stored, a numeric duration being one less.
C17_DecrementAfterApply ==
    \A r \in ReqIds :
        (/\ req[r].pc = "createNarrative" /\ req[r].alone /\ req[r].updates # <<>>)
        => \A p \in DOMAIN req[r].seenChars :
               Len(EntriesFor(r, p)) = 1 => C17_Stored(r, p)

\* ----------------------------------------------------------------- C18
\* the payload applied with every list computed from the stored row
RECURSIVE ApplyToStored(_, _)
ApplyToStored(rows, updates) ==
    IF updates = <<>> THEN rows
    ELSE LET p == FindCharacter(rows, Head(updates).key)
             written == IF p = 0 THEN rows
                        ELSE [rows EXCEPT ![p] =
                                UpdateData(rows[p], rows[p], Head(updates).changes)]
         IN  ApplyToStored(written, Tail(updates))

\* C18: the applier writes what its payload makes of the characters as they
\* are stored when it runs, whatever was written since the request read them
\* and whatever an earlier key of the payload wrote.
C18_AppliedToStored ==
    [][\A r \in ReqIds : ApplyStep(r) =>
          characters' = ApplyToStored(characters, req[r].updates[1])]_vars

\* ----------------------------------------------------------------- C19
C19_Step ==
    \A r \in ReqIds : DecrementStep(r) /\ req[r].alone =>
        \A p \in DOMAIN req[r].seenChars :
            /\ Len(characters'[p].abilities) = Len(characters[p].abilities)
            /\ \A i \in 1..Len(characters[p].abilities) :
                 characters'[p].abilities[i] =
                   [characters[p].abilities[i] EXCEPT
                      !.currentCooldown = IF @ = 0 THEN 0 ELSE @ - 1]

\* C19: the decrement pass of a request handled alone leaves every ability
\* of every character of the session with its stored current cooldown n
\* lowered to n - 1, or left at 0, and no stored current cooldown is ever
\* negative.
C19_CooldownFloor ==
    /\ [](\A p \in DOMAIN characters : \A i \in 1..Len(characters[p].abilities) :
             characters[p].abilities[i].currentCooldown >= 0)
    /\ [][C19_Step]_vars

\* ----------------------------------------------------------------- C20
RECURSIVE OneRoundLater(_)
OneRoundLater(statusEffects) ==
    IF statusEffects = <<>> THEN <<>>
    ELSE LET e == Head(statusEffects)
             later == OneRoundLater(Tail(statusEffects))
         IN  IF e.duration = Absent THEN <<e>> \o later
             ELSE IF e.duration > 1 THEN <<[e EXCEPT !.duration = @ - 1]>> \o later
             ELSE later

\* C20: the decrement pass of a request handled alone leaves, for every
\* character of the session whose status effects are as the request read
\* them, the effects without a duration as they are, the effects with more
\* than one turn left with one turn less, and none of the others.
C20_EffectsDecremented ==
    [][\A r \in ReqIds : DecrementStep(r) /\ req[r].alone =>
          \A p \in DOMAIN req[r].seenChars :
              characters[p].statusEffects = req[r].seenChars[p].statusEffects =>
                  characters'[p].statusEffects
                    = OneRoundLater(characters[p].statusEffects)]_vars

\* ----------------------------------------------------------------- C21
\* the decimal value of a numeral
RECURSIVE Numeral(_)
Numeral(digits) ==
    IF digits = <<>> THEN 0
    ELSE DigitValue(Head(digits)) * (10 ^ (Len(digits) - 1)) + Numeral(Tail(digits))

AllDigits(s) == s # <<>> /\ \A i \in 1..Len(s) : IsDigit(s[i])

\* the readings of a text as <count>d<sides> with an optional signed
\* modifier: n dice of m sides and k added
Readings(text) ==
    {[n |-> Numeral(SubSeq(text, 1, i - 1)),
      m |-> Numeral(SubSeq(text, i + 1, j)),
      k |-> IF j = Len(text) THEN 0
            ELSE IF text[j + 1] = "-" THEN 0 - Numeral(SubSeq(text, j + 2, Len(text)))
            ELSE Numeral(SubSeq(text, j + 2, Len(text)))] :
       <<i, j>> \in {x \in (1..Len(text)) \X (1..Len(text)) :
                      /\ x[1] < x[2]
                      /\ text[x[1]] \in {"d", "D"}
                      /\ AllDigits(SubSeq(text, 1, x[1] - 1))
                      /\ AllDigits(SubSeq(text, x[1] + 1, x[2]))
                      /\ x[2] < Len(text) =>
                           /\ text[x[2] + 1] \in {"+", "-"}
                           /\ AllDigits(SubSeq(text, x[2] + 2, Len(text)))}}

\* the valid notations: at least one die of at least one side
ValidReadings(text) == {v \in Readings(text) : v.n >= 1 /\ v.m >= 1}

\* C21: a roll of a valid notation NdM, NdM+K or NdM-K is answered with N
\* results, each an integer from 1 to M, and a total that is the sum of the
\* results plus K (0 without a modifier).
C21_ValidRoll ==
    response.kind = "dice" =>
        \A v \in ValidReadings(response.dice) :
            /\ response.status = 200 /\ Len(response.body) = 1
            /\ Len(response.body[1].rolls) = v.n
            /\ \A i \in 1..v.n : response.body[1].rolls[i] \in 1..v.m
            /\ response.body[1].result = SumSeq(response.body[1].rolls) + v.k

C21_Reached ==
    /\ response.kind = "dice" /\ response.status = 200
    /\ response.dice = <<"2", "D", "2", "-", "1">>
    /\ response.body = <<[result |-> 2, rolls |-> <<1, 2>>]>>

\* ----------------------------------------------------------------- C22
\* C22: a roll of a text that is no valid notation (no die, no side, a
\* malformed modifier, text before or after a notation) is answered 400 and
\* without a result.
C22_InvalidRejected ==
    response.kind = "dice" /\ ValidReadings(response.dice) = {} =>
        response.status = 400 /\ response.body = <<>>

\* ----------------------------------------------------------------- C23
\* a submit-action request is answered with a client error
Rejected == response'.kind = "message" /\ response'.status \in {400, 403}

\* C23: a step that rejects a submit-action request (no credential or no
\* content, a credential of no player of the session, a player without a
\* character) stores no message and changes no flag, phase, turn counter,
\* player or character.
C23_RejectedChangesNothing ==
    [][Rejected => UNCHANGED <<messages, hasActed, turnPhase, currentTurn,
                               players, charRows, characters>>]_vars

\* a player without a character was rejected in a session without messages
C23_Reached ==
    /\ response = [kind |-> "message", status |-> 400]
    /\ Cardinality(players) = 2 /\ Cardinality(DOMAIN characters) = 1
    /\ messages = EmptyBag /\ ActedPlayers = {}
    /\ turnPhase = WaitingForPlayers /\ currentTurn = 0

\* ----------------------------------------------------------------- C24
\* C24: no step lowers the turn counter, whatever the interleaving of the
\* submit-action requests.
C24_TurnNeverDecreases == [][currentTurn' >= currentTurn]_vars

\* ----------------------------------------------------------------- C25
\* the text split at the line breaks
RECURSIVE Parts(_)
Parts(content) ==
    LET breaks == {i \in 1..Len(content) : content[i] = Break}
        b == CHOOSE i \in breaks : \A k \in breaks : i <= k
    IN  IF breaks = {} THEN <<content>>
        ELSE <<SubSeq(content, 1, b - 1)>> \o Parts(SubSeq(content, b + 1, Len(content)))

\* the names in front of the parts of a merged user block, in their order
Speakers(content) ==
    LET parts == Parts(content)
        spoken == SelectSeq(parts, LAMBDA p : p # DiceCue)
    IN  [i \in 1..Len(spoken) |-> spoken[i][1].w]

WordsOf(content) == SelectSeq(content, LAMBDA t : t.t = "word")

\* the history cut into its maximal runs of one kind: every assistant row is
\* a run, consecutive user rows are one run
RECURSIVE RunsOf(_)
RunsOf(h) ==
    IF h = <<>> THEN <<>>
    ELSE LET before == RunsOf(SubSeq(h, 1, Len(h) - 1))
             m == h[Len(h)]
         IN  IF m.role = "user" /\ before # <<>>
                /\ before[Len(before)][1].role = "user"
             THEN [before EXCEPT ![Len(before)] = Append(@, m)]
             ELSE Append(before, <<m>>)

C25_Built(r) ==
    LET ai == req[r].aiMessages
        runs == RunsOf(req[r].allMessages)
    IN  /\ ai[1].role = "system"
        /\ \A i \in 1..(Len(ai) - 1) : ~(ai[i].role = "user" /\ ai[i + 1].role = "user")
        /\ Len(ai) = 1 + Len(runs)
        /\ \A k \in 1..Len(runs) :
             /\ ai[k + 1].role = runs[k][1].role
             /\ runs[k][1].role = "assistant" =>
                  WordsOf(ai[k + 1].content) = WordsOf(runs[k][1].content)
             /\ runs[k][1].role = "user" =>
                  Speakers(ai[k + 1].content)
                    = [i \in 1..Len(runs[k]) |-> CharName(runs[k][i].playerId)]

\* C25: the transcript built for the narrator starts with the system block,
\* has no two user blocks next to each other, has one block per assistant row
\* (with the words of that row) and one per maximal run of user rows, in the
\* order of the history, and a user block holds the messages of its run in the order they were submitted.
C25_Transcript ==
    \A r \in ReqIds :
        req[r].kind = "message" /\ req[r].pc = "callOpenRouter" => C25_Built(r)

C25_Reached ==
    \E r \in ReqIds :
        /\ req[r].pc = "callOpenRouter"
        /\ req[r].allMessages =
             <<Row("assistant", 0, NarrativeText, <<>>),
               Row("user", 2, ActionText, <<>>),
               Row("user", 1, ActionText, <<"1d2">>),
               Row("assistant", 0, <<BeginMarker, Junk, EndMarker, Space>> \o OpeningText,
                   <<>>),
               Row("user", 1, ActionText, <<>>)>>
        /\ Len(req[r].aiMessages) = 5
        /\ req[r].aiMessages[4] = Block("assistant", OpeningText)
        /\ Speakers(req[r].aiMessages[3].content) = <<"Thorn", "mira">>

\* ----------------------------------------------------------------- C26
\* the applier of request r throws at a key of its payload
Throwing(r) ==
    /\ req[r].kind = "message" /\ req[r].updates # <<>>
    /\ \E i \in 1..Len(req[r].updates[1]) :
         /\ req[r].updates[1][i].changes = NullChanges
         /\ \E p \in DOMAIN req[r].seenChars :
              ToLowerCase(req[r].seenChars[p].name)
                = ToLowerCase(req[r].updates[1][i].key)

\* the entries in front of the first one that is null for a character
RECURSIVE WrittenFirst(_, _)
WrittenFirst(r, updates) ==
    IF updates = <<>> THEN <<>>
    ELSE IF /\ Head(updates).changes = NullChanges
            /\ \E p \in DOMAIN req[r].seenChars :
                 ToLowerCase(req[r].seenChars[p].name) = ToLowerCase(Head(updates).key)
    THEN <<>>
    ELSE <<Head(updates)>> \o WrittenFirst(r, Tail(updates))

AfterThrow == {"createFallback", "resetPlayersActed", "getGame", "updateGameTurnPhase"}

C26_State ==
    \A r \in ReqIds : Throwing(r) /\ req[r].alone =>
        /\ req[r].pc \in {"applyCharacterUpdates"} \cup AfterThrow
        /\ decPasses = req[r].at0.dec
        /\ req[r].pc \in AfterThrow =>
             characters = ApplyToStored(req[r].seenChars,
                                        WrittenFirst(r, req[r].updates[1]))
        /\ req[r].pc \in AfterThrow \ {"createFallback"} =>
             /\ req[r].posted = "fallback"
             /\ CopiesIn(Message("assistant", 0, FallbackText), messages) = 1
             /\ BagCardinality(messages) = req[r].at0.msgs + 2

C26_Step ==
    \A r \in ReqIds : Throwing(r) /\ req[r].alone /\ Finishes(r) =>
        /\ response' = [kind |-> "message", status |-> 200]
        /\ turnPhase' = WaitingForPlayers
        /\ currentTurn' = req[r].at0.turn + 1
        /\ ActedPlayers' = {}
        /\ characters' = characters
        /\ decPasses' = req[r].at0.dec

\* C26: when the applier of a request handled alone throws at a key of its
\* payload, what the keys before it wrote stays stored, no decrement pass is
\* run, the fallback narration is the one assistant message stored for the
\* round, and the request answers 200 with the phase waiting-for-players,
\* every flag false and the turn counter one higher.
C26_PartialApply == []C26_State /\ [][C26_Step]_vars

C26_Reached ==
    \E r \in ReqIds :
        /\ req[r].pc = "updateGameTurnPhase" /\ req[r].alone
        /\ req[r].updates = <<(<<Entry("Mira", WorkedExample),
                                 Entry("Thorn", NullChanges)>>)>>
        /\ req[r].seenChars[1].xp = 0 /\ characters[1].xp = XpGrant
        /\ characters[1].inventory = req[r].seenChars[1].inventory \o <<"Iron Sword">>
        /\ req[r].posted = "fallback" /\ decPasses = 0 /\ ActedPlayers = {}

\* ----------------------------------------------------------------- C27
\* the step stores an action of a player whose flag is set already
FurtherAction(p) ==
    /\ hasActed[p] /\ UserMessagesOf(p)' = UserMessagesOf(p) + 1

\* the phase goes from waiting-for-players to ai-processing
BecomesNarrating == turnPhase = WaitingForPlayers /\ turnPhase' = AiProcessing

\* one player's flag is set and the other player has yet to act
OneWaitsForOther ==
    \E p, q \in players : hasActed[p] /\ ~hasActed[q]

\* C27: a further action of a player whose flag is set is stored and leaves
\* the flag, the phase and the turn counter as they are; and while the flag
\* of one player is set and the flag of another is not, the phase does not
\* become ai-processing, so that no round is narrated and counted for it.
C27_NoRoundAlone ==
    /\ [][\A p \in players : FurtherAction(p) =>
             /\ hasActed'[p]
             /\ UNCHANGED <<turnPhase, currentTurn>>]_vars
    /\ [][OneWaitsForOther => ~BecomesNarrating]_vars

\* ----------------------------------------------------------------- C28
\* the step stores an action of player p while the phase is ai-processing
ActionWhileNarrating(p) ==
    /\ turnPhase = AiProcessing /\ UserMessagesOf(p)' = UserMessagesOf(p) + 1

\* the end-of-round reset of a request
ResetStep(r) == req[r].pc = "resetPlayersActed" /\ req'[r].pc = "getGame"

\* the check of the flags sends the request on to narrate the round
FindsRoundComplete(r) ==
    req[r].pc = "getPlayersByGame" /\ req'[r].pc = "setAiProcessing"

\* C28: an action submitted while the phase is ai-processing is stored as a
\* user message and requests no narration; after the end-of-round reset no
\* flag of the session is set; no request finds a round complete while the
\* phase is ai-processing; and every round that was narrated took an action
\* of its own from every player, so that a round after the first is narrated
\* only after both players have submitted again.
C28_NarratingActionNotCounted ==
    /\ [][\A p \in players : ActionWhileNarrating(p) =>
             UNCHANGED <<hasActed, turnPhase, currentTurn, genCalls>>]_vars
    /\ [][\A r \in ReqIds : ResetStep(r) => ActedPlayers' = {}]_vars
    /\ [][\A r \in ReqIds : FindsRoundComplete(r) => turnPhase = WaitingForPlayers]_vars
    /\ [](\A p \in players : genCalls <= UserMessagesOf(p))

\* ----------------------------------------------------------------- C29
Openings == CopiesIn(OpeningMessage, messages)

\* an action is stored while fewer than two players have a character
ActedBeforeSecondCharacter ==
    /\ CharactersOfSession < 2 /\ UserMessages > 0 /\ Openings = 0

\* C29: once an action is stored while fewer than two players of the session
\* have a character, no opening narration is ever stored, whatever
\* create-character and manual-start requests follow, and every manual start
\* is answered 400.
C29_NoLateOpening ==
    [](ActedBeforeSecondCharacter =>
         [](/\ Openings = 0
            /\ response.kind = "start" => response.status = 400))

\* the second character was created and a manual start was rejected after an
\* action was stored
C29_Reached ==
    /\ response = [kind |-> "start", status |-> 400]
    /\ CharactersOfSession = 2 /\ \A p \in players : charRows[p] = 1
    /\ UserMessages = 1 /\ BagCardinality(messages) = 1 /\ Quiet
    /\ ActedPlayers # {}

\* ----------------------------------------------------------------- C30
OpeningPcs == {"charReadMessages", "charOpening", "startReadMessages", "startOpening"}

\* a step of a request that generates the opening narration: from the read
\* of the messages to the stored opening
OpeningStep(r) == req[r].pc \in OpeningPcs /\ req'[r].pc # req[r].pc

StoresOpening(r) == req[r].pc \in {"charOpening", "startOpening"} /\ req'[r].pc = "idle"

\* C30: a step that generates the opening narration changes no flag, phase,
\* turn counter, player or character; the step that ends it adds one message
\* to the stored ones, an assistant message without a player, and no other
\* step of the generation adds or removes a message.
C30_OpeningFrame ==
    [][\A r \in ReqIds : OpeningStep(r) =>
          /\ UNCHANGED <<hasActed, turnPhase, currentTurn, players, charRows,
                         characters>>
          /\ IF StoresOpening(r)
             THEN \E m \in BagToSet(messages') :
                     /\ messages' = messages (+) SetToBag({m})
                     /\ m.role = "assistant" /\ m.playerId = 0
             ELSE messages' = messages]_vars

\* the opening was stored by a create-character request while a flag was set
C30_Reached ==
    /\ response = [kind |-> "character", status |-> 200]
    /\ Openings = 1 /\ UserMessages = 1 /\ BagCardinality(messages) = 2
    /\ ActedPlayers # {} /\ Quiet /\ \A p \in players : charRows[p] = 1
    /\ turnPhase = WaitingForPlayers /\ currentTurn = 0
====
